---- MODULE Spec2Model ----
(***************************************************************************)
(* Jarh wa Ta'dil narrator extraction: the two extractors of the           *)
(* repository, JarhWaTadilExtractor (src/jarh_tadeel_extract.py) and       *)
(* NarratorExtractor (src/jarh_tadil_extractor.py).                        *)
(*                                                                         *)
(* A text is a sequence of characters, each character a string.  Arabic    *)
(* letters are written in Buckwalter transliteration, one ASCII symbol per *)
(* letter: A alef, b ba, p ta-marbuta, t ta, v tha, j jim, H ha, x kha,    *)
(* d dal, * dhal, r ra, z zay, s sin, $ shin, S sad, D dad, T ta, Z za,    *)
(* E ayn, g ghayn, f fa, q qaf, k kaf, l lam, m mim, n nun, h ha, w waw,    *)
(* Y alef-maqsura, y ya, > alef-hamza-above, & waw-hamza,                  *)
(* < alef-hamza-below, } ya-hamza, ' hamza, | alef-madda.  The tatweel     *)
(* U+0640 is "ar_" (not Buckwalter's _, which is left to the ASCII         *)
(* underscore), the Arabic-Indic digits U+0660..U+0669 are "ar0".."ar9",   *)
(* the Arabic comma U+060C is "ar,", the Arabic semicolon U+061B is "ar;", *)
(* the fullwidth colon U+FF1A is "fw:".  ASCII digits, punctuation (the    *)
(* underscore U+005F, "_", included), the space, "\n" and "\t" stand for   *)
(* themselves.  "#" is a character that is neither a letter, a digit,      *)
(* whitespace nor punctuation the code looks for.                          *)
(***************************************************************************)
EXTENDS Integers, Sequences, FiniteSets, TLC

VARIABLES
  pc,          \* position of the running driver or function
  pages,       \* extract_from_json: the input list of pages
  pidx,        \* extract_from_json: index of the page the outer loop is at
  entries,     \* extract_from_json: entries of the current page not yet processed
  vol,         \* extract_from_json: normalized volume of the current page
  records,     \* JarhWaTadilExtractor.records
  counter,     \* JarhWaTadilExtractor.counter
  run,         \* which run of main() this is (1 or 2)
  output1,     \* what the first run saved
  data,        \* extract_narrators: the loaded JSON array
  didx,        \* extract_narrators: index of the item the loop is at
  narrators,   \* extract_narrators: the list being built
  input,       \* argument of the function applied
  result       \* what the function returned

vars ==
  <<pc, pages, pidx, entries, vol, records, counter, run, output1,
    data, didx, narrators, input, result>>

(***************************************************************************)
(* Characters and character classes                                        *)
(***************************************************************************)

\* Python's None, a value no text equals
None ==
  <<"<None>">>

ArabicDigits ==
  <<"ar0", "ar1", "ar2", "ar3", "ar4", "ar5", "ar6", "ar7", "ar8", "ar9">>

WesternDigits ==
  <<"0", "1", "2", "3", "4", "5", "6", "7", "8", "9">>

Range(s) ==
  {s[i] : i \in DOMAIN s}

\* \d of a str pattern: every Unicode decimal digit
DigitClass ==
  Range(WesternDigits) \cup Range(ArabicDigits)

\* \s, and what str.strip() and str.split() take for whitespace
Whitespace ==
  {" ", "\n", "\t"}

\* [أ-ي]: U+0623 .. U+064A, the tatweel U+0640 among them
ArabicLetter ==
  {">", "&", "<", "}", "A", "b", "p", "t", "v", "j", "H", "x", "d", "*", "r",
   "z", "s", "$", "S", "D", "T", "Z", "E", "g", "ar_", "f", "q", "k", "l", "m",
   "n", "h", "w", "Y", "y"}

(***************************************************************************)
(* String primitives                                                       *)
(***************************************************************************)

\* lit occurs in text at index i
IsPrefixAt(lit, text, i) ==
  /\ i >= 1
  /\ i + Len(lit) - 1 <= Len(text)
  /\ \A k \in 1..Len(lit) : text[i + k - 1] = lit[k]

\* Python's `lit in text`
Contains(lit, text) ==
  \E i \in 1..(Len(text) - Len(lit) + 1) : IsPrefixAt(lit, text, i)

\* the index of the first element of seq other than 0, 0 if there is none
FirstNonZero(seq) ==
  IF \E j \in 1..Len(seq) : seq[j] # 0
  THEN CHOOSE j \in 1..Len(seq) : seq[j] # 0 /\ \A k \in 1..(j - 1) : seq[k] = 0
  ELSE 0

\* the index of the last element of seq other than 0, 0 if there is none
LastNonZero(seq) ==
  IF \E j \in 1..Len(seq) : seq[j] # 0
  THEN CHOOSE j \in 1..Len(seq) :
         seq[j] # 0 /\ \A k \in (j + 1)..Len(seq) : seq[k] = 0
  ELSE 0


\* a greedy run S* from index i: the index after the run
RunEnd(S, text, i) ==
  IF i > Len(text) THEN i
  ELSE CHOOSE j \in i..(Len(text) + 1) :
         /\ j = Len(text) + 1 \/ text[j] \notin S
         /\ \A k \in i..(j - 1) : text[k] \in S

\* the run of S ending at index j, backwards: the index before the run
RunBack(S, text, j) ==
  IF j < 1 THEN j
  ELSE CHOOSE k \in 0..j :
         /\ k = 0 \/ text[k] \notin S
         /\ \A m \in (k + 1)..j : text[m] \in S

\* text[a..b-1]
Slice(text, a, b) ==
  IF b <= a THEN <<>> ELSE SubSeq(text, a, b - 1)

\* str.strip()
Strip(s) ==
  Slice(s, RunEnd(Whitespace, s, 1), RunBack(Whitespace, s, Len(s)) + 1)

\* str.rstrip(chars)
RStrip(s, chars) ==
  Slice(s, 1, RunBack(chars, s, Len(s)) + 1)

\* index of the first element of S at or after i, Len(text)+1 if none
FindFirst(S, text, i) ==
  IF i > Len(text) THEN i
  ELSE CHOOSE j \in i..(Len(text) + 1) :
         /\ j = Len(text) + 1 \/ text[j] \in S
         /\ \A k \in i..(j - 1) : text[k] \notin S

\* str.split(): the whitespace-delimited words
Words(s, i) ==
  LET IsStart(j) == /\ j >= i
                    /\ s[j] \notin Whitespace
                    /\ j = i \/ s[j - 1] \in Whitespace
      starts == SelectSeq([j \in 1..Len(s) |-> j], IsStart)
  IN [k \in 1..Len(starts) |->
        Slice(s, starts[k], FindFirst(Whitespace, s, starts[k]))]

\* ' '.join(words)
RECURSIVE JoinSpace(_)
JoinSpace(ws) ==
  IF ws = <<>> THEN <<>>
  ELSE IF Len(ws) = 1 THEN ws[1]
  ELSE ws[1] \o <<" ">> \o JoinSpace(Tail(ws))

(***************************************************************************)
(* Numerals                                                                *)
(***************************************************************************)

TranslateDigit(c) ==
  IF \E k \in 1..10 : ArabicDigits[k] = c
  THEN WesternDigits[CHOOSE k \in 1..10 : ArabicDigits[k] = c]
  ELSE c

arabic_to_western(text) ==
  IF text = <<>> THEN <<>> ELSE [i \in 1..Len(text) |-> TranslateDigit(text[i])]

\* the value of a decimal digit of either numeral system
DigitValue(c) ==
  IF \E k \in 1..10 : WesternDigits[k] = c
  THEN (CHOOSE k \in 1..10 : WesternDigits[k] = c) - 1
  ELSE (CHOOSE k \in 1..10 : ArabicDigits[k] = c) - 1

\* what stands for the ValueError int() raises
ValueError ==
  "ValueError"

\* str(x) of a string or of None
str(x) ==
  IF x = None THEN <<"N", "o", "n", "e">> ELSE x

\* int(s) accepts s: surrounding whitespace, an optional sign, then decimal
\* digits with single ASCII underscores ("_", U+005F) between them
IsIntLiteral(s) ==
  LET t == Strip(s)
      b == IF t # <<>> /\ t[1] \in {"+", "-"} THEN Tail(t) ELSE t
  IN /\ b # <<>>
     /\ \A i \in 1..Len(b) :
          \/ b[i] \in DigitClass
          \/ /\ b[i] = "_" /\ 1 < i /\ i < Len(b)
             /\ b[i - 1] \in DigitClass /\ b[i + 1] \in DigitClass

\* the value of a run of decimal digits and underscores
RECURSIVE DigitsValue(_)
DigitsValue(b) ==
  IF b = <<>> THEN 0
  ELSE IF b[Len(b)] = "_" THEN DigitsValue(SubSeq(b, 1, Len(b) - 1))
  ELSE 10 * DigitsValue(SubSeq(b, 1, Len(b) - 1)) + DigitValue(b[Len(b)])

\* int(s): the integer s writes, ValueError where int() raises
IntOf(s) ==
  IF ~IsIntLiteral(s) THEN ValueError
  ELSE LET t == Strip(s)
       IN IF t[1] = "-" THEN 0 - DigitsValue(Tail(t))
          ELSE IF t[1] = "+" THEN DigitsValue(Tail(t))
          ELSE DigitsValue(t)

\* str(n)
RECURSIVE DecimalDigits(_)
DecimalDigits(n) ==
  IF n < 10 THEN <<WesternDigits[n + 1]>>
  ELSE DecimalDigits(n \div 10) \o <<WesternDigits[(n % 10) + 1]>>

\* str.zfill(width), and the 0<width>d of a format
ZeroPad(s, width) ==
  IF Len(s) >= width THEN s ELSE [i \in 1..(width - Len(s)) |-> "0"] \o s

IdWidth ==
  5

(***************************************************************************)
(* JarhWaTadilExtractor: footnotes, segmentation, name                     *)
(***************************************************************************)

\* \d+\s*-\s* at index i: the index after the match, 0 if none
MarkerEnd(text, i) ==
  LET d == RunEnd(DigitClass, text, i)
      w == RunEnd(Whitespace, text, d)
  IN IF i >= 1 /\ d > i /\ w <= Len(text) /\ text[w] = "-"
     THEN RunEnd(Whitespace, text, w + 1)
     ELSE 0

\* \(\s*[٠-٩0-9]+\s*\) at index i: the index after the match, 0 if none
FootnoteEnd(text, i) ==
  LET a == RunEnd(Whitespace, text, i + 1)
      d == RunEnd(DigitClass, text, a)
      b == RunEnd(Whitespace, text, d)
  IN IF i <= Len(text) /\ text[i] = "(" /\ d > a /\ b <= Len(text) /\ text[b] = ")"
     THEN b + 1
     ELSE 0

\* \[\s*[^]]+?\s*\] at index i: the index after the match, 0 if none
BracketEnd(text, i) ==
  LET j == FindFirst({"]"}, text, i + 1)
  IN IF i <= Len(text) /\ text[i] = "[" /\ j <= Len(text) /\ j > i + 1
     THEN j + 1
     ELSE 0

\* re.sub(pattern, '', text) scanning from index i, for the two patterns
RECURSIVE RemoveFootnotes(_, _)
RemoveFootnotes(text, i) ==
  IF i > Len(text) THEN <<>>
  ELSE LET ends == <<>> \o [j \in 1..(Len(text) - i + 1) |-> FootnoteEnd(text, i + j - 1)]
           k == FirstNonZero(ends)
       IN IF k = 0 THEN Slice(text, i, Len(text) + 1)
          ELSE Slice(text, i, i + k - 1) \o RemoveFootnotes(text, ends[k])

RECURSIVE RemoveBrackets(_, _)
RemoveBrackets(text, i) ==
  IF i > Len(text) THEN <<>>
  ELSE LET ends == <<>> \o [j \in 1..(Len(text) - i + 1) |-> BracketEnd(text, i + j - 1)]
           k == FirstNonZero(ends)
       IN IF k = 0 THEN Slice(text, i, Len(text) + 1)
          ELSE Slice(text, i, i + k - 1) \o RemoveBrackets(text, ends[k])

remove_footnotes(text) ==
  RemoveBrackets(RemoveFootnotes(text, 1), 1)

\* the lookahead (?=\n?\d+\s*-\s*) holds at index i
BoundaryAt(text, i) ==
  \/ i <= Len(text) /\ text[i] = "\n" /\ MarkerEnd(text, i + 1) # 0
  \/ MarkerEnd(text, i) # 0

\* re.split on the zero-width boundaries: every boundary index cuts the text
RECURSIVE SplitAtBoundaries(_, _, _)
SplitAtBoundaries(text, start, i) ==
  IF i > Len(text) THEN <<Slice(text, start, Len(text) + 1)>>
  ELSE LET hits == <<>> \o [j \in 1..(Len(text) - i + 1) |->
                             IF BoundaryAt(text, i + j - 1) THEN 1 ELSE 0]
           k == FirstNonZero(hits)
       IN IF k = 0 THEN <<Slice(text, start, Len(text) + 1)>>
          ELSE <<Slice(text, start, i + k - 1)>>
                 \o SplitAtBoundaries(text, i + k - 1, i + k)

segment_entries(text) ==
  LET t == arabic_to_western(text)
      parts == SplitAtBoundaries(t, 1, 1)
      IsEntry(p) == MarkerEnd(p, 1) # 0
      kept == SelectSeq(parts, IsEntry)
  IN IF kept = <<>> THEN <<>> ELSE [k \in 1..Len(kept) |-> Strip(kept[k])]

\* entry.split('\n', 1)[0]
FirstLine(entry) ==
  Slice(entry, 1, FindFirst({"\n"}, entry, 1))

bn ==
  <<"b", "n">>

Abn ==
  <<"A", "b", "n">>

\* \s+(?:بن|ابن)\s+[أ-ي]+ at index i: the index after the match, 0 if none
BinSegmentEnd(h, i) ==
  LET w == RunEnd(Whitespace, h, i)
      b == IF IsPrefixAt(bn, h, w) THEN w + Len(bn)
           ELSE IF IsPrefixAt(Abn, h, w) THEN w + Len(Abn)
           ELSE 0
      x == RunEnd(Whitespace, h, b)
      l == RunEnd(ArabicLetter, h, x)
  IN IF w > i /\ b # 0 /\ x > b /\ l > x THEN l ELSE 0

\* the {1,6} of the name pattern
MaxBinSegments ==
  6

\* up to n further segments from index i, greedily: the index after the last
RECURSIVE BinSegments(_, _, _)
BinSegments(h, i, n) ==
  LET e == BinSegmentEnd(h, i)
  IN IF n = 0 \/ e = 0 THEN i ELSE BinSegments(h, e, n - 1)

extract_name(entry) ==
  LET header == remove_footnotes(FirstLine(entry))
      m == MarkerEnd(header, 1)
      l == RunEnd(ArabicLetter, header, m)
  IN IF m = 0 \/ l = m \/ BinSegmentEnd(header, l) = 0 THEN None
     ELSE Strip(Slice(header, m, BinSegments(header, l, MaxBinSegments)))

(***************************************************************************)
(* JarhWaTadilExtractor: judgements                                        *)
(***************************************************************************)

\* self.taadil_terms, in the dict's iteration order; a key written twice in
\* the literal keeps its first place and takes its last label
taadil_terms ==
  << [ar |-> <<"v", "q", "p", " ", "v", "q", "p">>, en |-> "Thiqa Thiqa"],
     [ar |-> <<"v", "q", "p", " ", "v", "b", "t">>, en |-> "Thiqa Thabt"],
     [ar |-> <<"v", "q", "p", " ", "H", "A", "f", "Z">>, en |-> "Thiqa Hafiz"],
     [ar |-> <<"<", "m", "A", "m", " ", "H", "A", "f", "Z">>, en |-> "Imam Hafiz"],
     [ar |-> <<"H", "j", "p">>, en |-> "Hujjah"],
     [ar |-> <<"v", "q", "p">>, en |-> "Thiqa"],
     [ar |-> <<"v", "b", "t">>, en |-> "Thabt"],
     [ar |-> <<"S", "d", "w", "q">>, en |-> "Saduq"],
     [ar |-> <<"l", "A", " ", "b", ">", "s", " ", "b", "h">>, en |-> "La ba's bihi"],
     [ar |-> <<"m", "H", "l", "h", " ", "A", "l", "S", "d", "q">>, en |-> "Truthful"],
     [ar |-> <<"S", "A", "l", "H", " ", "A", "l", "H", "d", "y", "v">>, en |-> "Salih al-hadith"],
     [ar |-> <<"y", "k", "t", "b", " ", "H", "d", "y", "v", "h">>, en |-> "His hadith is written"],
     [ar |-> <<"S", "d", "w", "q", " ", "y", "h", "m">>, en |-> "Saduq (but makes mistakes)"],
     [ar |-> <<"S", "A", "l", "H">>, en |-> "Salih"],
     [ar |-> <<"$", "y", "x">>, en |-> "Shaykh"],
     [ar |-> <<"w", "s", "T">>, en |-> "Average"] >>

\* self.jarh_terms, likewise
jarh_terms ==
  << [ar |-> <<"w", "s", "T">>, en |-> "Average"],
     [ar |-> <<"D", "E", "y", "f">>, en |-> "Daif"],
     [ar |-> <<"l", "y", "n", " ", "A", "l", "H", "d", "y", "v">>, en |-> "Layyin al-Hadith"],
     [ar |-> <<"l", "y", "s", " ", "b", "A", "l", "q", "w", "y">>, en |-> "Not strong"],
     [ar |-> <<"y", "h", "m">>, en |-> "Makes mistakes"],
     [ar |-> <<"m", "n", "k", "r", " ", "A", "l", "H", "d", "y", "v">>, en |-> "Munkar al-Hadith"],
     [ar |-> <<"s", "y", "}", " ", "A", "l", "H", "f", "Z">>, en |-> "Poor memory"],
     [ar |-> <<"m", "t", "r", "w", "k">>, en |-> "Matruk"],
     [ar |-> <<"m", "t", "r", "w", "k", " ", "A", "l", "H", "d", "y", "v">>, en |-> "Matruk al-Hadith"],
     [ar |-> <<"k", "*", "A", "b">>, en |-> "Kadhdhab"],
     [ar |-> <<"w", "D", "A", "E">>, en |-> "Fabricator"],
     [ar |-> <<"s", "A", "q", "T">>, en |-> "Saqit"],
     [ar |-> <<"f", "y", "h", " ", "l", "y", "n">>, en |-> "Layyin"] >>

qAl ==
  <<"q", "A", "l">>

wqAl ==
  <<"w", "q", "A", "l">>

\* [:：]
Colons ==
  {":", "fw:"}

\* what [^\.،\n] excludes
PhraseStops ==
  {".", "ar,", "\n"}

\* the {2,200} of the judgement phrase
MinPhrase ==
  2

MaxPhrase ==
  200

\* [^\.،\n]{2,200} taken greedily from index p: the index after it
PhraseEnd(text, p) ==
  LET e == FindFirst(PhraseStops, text, p)
  IN IF e - p > MaxPhrase THEN p + MaxPhrase ELSE e

\* \s*([^\.،\n]{2,200}) after the colon: \s* gives back whitespace from b
\* down to a until the phrase has its two characters; 0 if it never has
RECURSIVE PhraseStart(_, _, _)
PhraseStart(text, a, p) ==
  IF p < a THEN 0
  ELSE IF PhraseEnd(text, p) - p >= MinPhrase THEN p
  ELSE PhraseStart(text, a, p - 1)

NoMatch ==
  [end |-> 0]

\* the first match of a sequence of attempts, NoMatch if every one failed
FirstMatch(all) ==
  IF \E j \in 1..Len(all) : all[j].end # 0
  THEN all[CHOOSE j \in 1..Len(all) :
             all[j].end # 0 /\ \A k \in 1..(j - 1) : all[k].end = 0]
  ELSE NoMatch

\* evaluator_pattern at index i
EvaluatorMatchAt(text, i) ==
  LET k == IF IsPrefixAt(qAl, text, i) THEN i + Len(qAl)
           ELSE IF IsPrefixAt(wqAl, text, i) THEN i + Len(wqAl)
           ELSE 0
      w == RunEnd(Whitespace, text, k)
      g == RunEnd(ArabicLetter \cup Whitespace, text, w)
      \* \s+ gives one whitespace back when the lazy group would be empty
      s == IF g > w THEN w ELSE w - 1
      b == RunEnd(Whitespace, text, g + 1)
      p == PhraseStart(text, g + 1, b)
      e == PhraseEnd(text, p)
  IN IF k # 0 /\ w > k /\ s > k /\ g <= Len(text) /\ text[g] \in Colons /\ p # 0
     THEN [end |-> e,
           evaluator |-> Strip(Slice(text, s, g)),
           phrase |-> Strip(Slice(text, p, e))]
     ELSE NoMatch

\* re.finditer(evaluator_pattern, text) from index i
RECURSIVE EvaluatorMatches(_, _)
EvaluatorMatches(text, i) ==
  IF i > Len(text) THEN <<>>
  ELSE LET all == <<>> \o [j \in 1..(Len(text) - i + 1) |-> EvaluatorMatchAt(text, i + j - 1)]
           m == FirstMatch(all)
       IN IF m.end = 0 THEN <<>>
          ELSE <<m>> \o EvaluatorMatches(text, m.end)

\* the terms of a lexicon that hay contains, in the lexicon's order
TermsIn(terms, hay) ==
  LET Hit(t) == Contains(t.ar, hay)
  IN SelectSeq(terms, Hit)

\* one loop over a lexicon for an attributed match
AttributedJudgements(terms, m) ==
  LET hit == TermsIn(terms, m.phrase)
  IN IF hit = <<>> THEN <<>>
     ELSE [k \in 1..Len(hit) |->
             [statement |-> hit[k].en, exact_text |-> m.phrase,
              evaluated_by |-> m.evaluator]]

\* a variant in which the standalone loop passes over a term that an
\* attributed phrase already holds
StandaloneUnlessAttributed(terms, text) ==
  LET ms == EvaluatorMatches(text, 1)
      Fresh(t) == Contains(t.ar, text)
                    /\ \A n \in 1..Len(ms) : ~Contains(t.ar, ms[n].phrase)
      hit == SelectSeq(terms, Fresh)
  IN IF hit = <<>> THEN <<>>
     ELSE [k \in 1..Len(hit) |->
             [statement |-> hit[k].en, exact_text |-> hit[k].ar,
              evaluated_by |-> None]]

\* the standalone loop over a lexicon
StandaloneJudgements(terms, text) ==
  LET hit == TermsIn(terms, text)
  IN IF hit = <<>> THEN <<>>
     ELSE [k \in 1..Len(hit) |->
             [statement |-> hit[k].en, exact_text |-> hit[k].ar,
              evaluated_by |-> None]]

\* a variant in which only the approval loop sets classified
UnclassifiedTaadilOnly(m) ==
  IF TermsIn(taadil_terms, m.phrase) = <<>>
  THEN <<[exact_text |-> m.phrase, evaluated_by |-> m.evaluator]>>
  ELSE <<>>

\* classified stays False: the phrase holds no term of either lexicon
Unclassified(m) ==
  IF TermsIn(taadil_terms, m.phrase) = <<>> /\ TermsIn(jarh_terms, m.phrase) = <<>>
  THEN <<[exact_text |-> m.phrase, evaluated_by |-> m.evaluator]>>
  ELSE <<>>

RECURSIVE AttributedAll(_, _)
AttributedAll(terms, ms) ==
  IF ms = <<>> THEN <<>>
  ELSE AttributedJudgements(terms, Head(ms)) \o AttributedAll(terms, Tail(ms))

RECURSIVE UnclassifiedAll(_)
UnclassifiedAll(ms) ==
  IF ms = <<>> THEN <<>> ELSE Unclassified(Head(ms)) \o UnclassifiedAll(Tail(ms))

extract_judgements(text) ==
  LET ms == EvaluatorMatches(text, 1)
  IN [taadil |-> AttributedAll(taadil_terms, ms) \o StandaloneJudgements(taadil_terms, text),
      jarh |-> AttributedAll(jarh_terms, ms) \o StandaloneJudgements(jarh_terms, text),
      unclassified |-> UnclassifiedAll(ms)]

(***************************************************************************)
(* JarhWaTadilExtractor: teachers and students                             *)
(***************************************************************************)

rwY_En ==
  <<"r", "w", "Y", " ", "E", "n">>

smE ==
  <<"s", "m", "E">>

mn ==
  <<"m", "n">>

rwY_Enh ==
  <<"r", "w", "Y", " ", "E", "n", "h">>

Hdv_Enh ==
  <<"H", "d", "v", " ", "E", "n", "h">>

\* [أ-ي\sو,]
NameListClass ==
  ArabicLetter \cup Whitespace \cup {"w", ","}

\* (?:بن\s+[أ-ي]+)+ at index p, greedily: the index after it, 0 if none
RECURSIVE BnTailEnd(_, _)
BnTailEnd(text, p) ==
  LET x == RunEnd(Whitespace, text, p + Len(bn))
      l == RunEnd(ArabicLetter, text, x)
      again == BnTailEnd(text, l)
  IN IF IsPrefixAt(bn, text, p) /\ x > p + Len(bn) /\ l > x
     THEN (IF again # 0 THEN again ELSE l)
     ELSE 0

\* the greedy class run from s gives characters back, from p down to s+1,
\* until the bn tail matches: the index after the capture, 0 if none
CaptureBacktrack(text, s, p) ==
  IF p <= s THEN 0
  ELSE LET ends == <<>> \o [j \in 1..(p - s) |-> BnTailEnd(text, s + j)]
           k == LastNonZero(ends)
       IN IF k = 0 THEN 0 ELSE ends[k]

\* ([أ-ي\sو,]+(?:بن\s+[أ-ي]+)+) at index s
CaptureEnd(text, s) ==
  CaptureBacktrack(text, s, RunEnd(NameListClass, text, s))

\* the \s+ before the capture gives whitespace back, from s down to lo
RECURSIVE CaptureFrom(_, _, _)
CaptureFrom(text, lo, s) ==
  IF s < lo THEN NoMatch
  ELSE LET e == CaptureEnd(text, s)
       IN IF e # 0 THEN [end |-> e, name_list |-> Slice(text, s, e)]
          ELSE CaptureFrom(text, lo, s - 1)

\* \s+(capture) at index k
SpaceThenCapture(text, k) ==
  LET w == RunEnd(Whitespace, text, k)
  IN IF w > k THEN CaptureFrom(text, k + 1, w) ELSE NoMatch

\* <literal>\s+(capture) at index i
LiteralPatternAt(lit, text, i) ==
  IF IsPrefixAt(lit, text, i) THEN SpaceThenCapture(text, i + Len(lit)) ELSE NoMatch

\* سمع(?:\s+من)?\s+(capture) at index i: with the optional group, else without
HeardPatternAt(text, i) ==
  LET k == i + Len(smE)
      w == RunEnd(Whitespace, text, k)
      with == IF w > k /\ IsPrefixAt(mn, text, w)
              THEN SpaceThenCapture(text, w + Len(mn))
              ELSE NoMatch
  IN IF ~IsPrefixAt(smE, text, i) THEN NoMatch
     ELSE IF with.end # 0 THEN with
     ELSE SpaceThenCapture(text, k)

\* the four patterns, by number: teacher_patterns are 1 and 2,
\* student_patterns 3 and 4
RelationPatternAt(n, text, i) ==
  CASE n = 1 -> LiteralPatternAt(rwY_En, text, i)
    [] n = 2 -> HeardPatternAt(text, i)
    [] n = 3 -> LiteralPatternAt(rwY_Enh, text, i)
    [] n = 4 -> LiteralPatternAt(Hdv_Enh, text, i)

\* split_names: re.split(r'[و,]+', raw), stripped, the empty ones dropped
RECURSIVE split_names(_, _)
split_names(raw, i) ==
  IF i > Len(raw) THEN {}
  ELSE LET j == FindFirst({"w", ","}, raw, i)
           name == Strip(Slice(raw, i, j))
       IN (IF name = <<>> THEN {} ELSE {name})
            \cup split_names(raw, RunEnd({"w", ","}, raw, j))

\* the names of every match of pattern n, re.finditer from index i
RECURSIVE RelationNames(_, _, _)
RelationNames(n, text, i) ==
  IF i > Len(text) THEN {}
  ELSE LET all == <<>> \o [j \in 1..(Len(text) - i + 1) |-> RelationPatternAt(n, text, i + j - 1)]
           m == FirstMatch(all)
       IN IF m.end = 0 THEN {}
          ELSE split_names(m.name_list, 1) \cup RelationNames(n, text, m.end)

\* the two sets extract_teachers_students fills, before list() orders them
TeacherSet(text) ==
  RelationNames(1, text, 1) \cup RelationNames(2, text, 1)

StudentSet(text) ==
  RelationNames(3, text, 1) \cup RelationNames(4, text, 1)

\* list(a_set): the set's elements in the order the hash table holds them,
\* which for str keys changes with the interpreter's hash seed
ListOfSet(S) ==
  {s \in [1..Cardinality(S) -> S] : Range(s) = S}

(***************************************************************************)
(* NarratorExtractor                                                       *)
(***************************************************************************)

taadil_keywords ==
  << <<"v", "q", "p">>,
     <<"S", "d", "w", "q">>,
     <<"H", "A", "f", "Z">>,
     <<"m", "t", "q", "n">>,
     <<"D", "A", "b", "T">>,
     <<"E", "d", "l">>,
     <<"m", ">", "m", "w", "n">>,
     <<"l", "A", " ", "b", ">", "s", " ", "b", "h">>,
     <<"S", "A", "l", "H", " ", "A", "l", "H", "d", "y", "v">>,
     <<"y", "k", "t", "b", " ", "H", "d", "y", "v", "h">>,
     <<"H", "j", "p">>,
     <<"<", "m", "A", "m">>,
     <<"v", "b", "t">>,
     <<"E", "A", "b", "d">>,
     <<"f", "A", "D", "l">>,
     <<"S", "A", "l", "H">>,
     <<"m", "q", "b", "w", "l">>,
     <<"r", "j", "l", " ", "S", "A", "l", "H">>,
     <<"l", "A", " ", "b", ">", "s">>,
     <<"m", "A", " ", "b", "A", "l", " ", "b", "h">>,
     <<"m", "H", "l", "h", " ", "A", "l", "S", "d", "q">>,
     <<"S", "d", "q">> >>

jarh_keywords ==
  << <<"D", "E", "y", "f">>,
     <<"m", "t", "r", "w", "k">>,
     <<"k", "*", "A", "b">>,
     <<"w", "D", "A", "E">>,
     <<"m", "n", "k", "r", " ", "A", "l", "H", "d", "y", "v">>,
     <<"w", "A", "h">>,
     <<"l", "y", "s", " ", "b", "$", "y", "'">>,
     <<"l", "A", " ", "y", "H", "t", "j", " ", "b", "h">>,
     <<"m", "j", "h", "w", "l">>,
     <<"D", "E", "f", "h">>,
     <<"t", "r", "k", "h">>,
     <<"l", "y", "s", " ", "b", "A", "l", "q", "w", "y">>,
     <<"f", "y", "h", " ", "D", "E", "f">>,
     <<"m", "n", "k", "r">>,
     <<"l", "A", " ", "y", "E", "r", "f">>,
     <<"m", "j", "r", "w", "H">>,
     <<"l", "y", "s", " ", "b", "v", "q", "p">>,
     <<"D", "E", "y", "f", " ", "A", "l", "H", "d", "y", "v">> >>

convert_arabic_numerals(text) ==
  IF text = <<>> THEN <<>> ELSE [i \in 1..Len(text) |-> TranslateDigit(text[i])]

\* \[.*?\] at index i (the dot stops at a newline): the index after, 0 if none
DotBracketEnd(text, i) ==
  LET j == FindFirst({"]", "\n"}, text, i + 1)
  IN IF i <= Len(text) /\ text[i] = "[" /\ j <= Len(text) /\ text[j] = "]"
     THEN j + 1
     ELSE 0

\* \([٠-٩0-9]+\) at index i: the index after, 0 if none
TightFootnoteEnd(text, i) ==
  LET d == RunEnd(DigitClass, text, i + 1)
  IN IF i <= Len(text) /\ text[i] = "(" /\ d > i + 1 /\ d <= Len(text) /\ text[d] = ")"
     THEN d + 1
     ELSE 0

RECURSIVE RemoveDotBrackets(_, _)
RemoveDotBrackets(text, i) ==
  IF i > Len(text) THEN <<>>
  ELSE LET ends == <<>> \o [j \in 1..(Len(text) - i + 1) |-> DotBracketEnd(text, i + j - 1)]
           k == FirstNonZero(ends)
       IN IF k = 0 THEN Slice(text, i, Len(text) + 1)
          ELSE Slice(text, i, i + k - 1) \o RemoveDotBrackets(text, ends[k])

RECURSIVE RemoveTightFootnotes(_, _)
RemoveTightFootnotes(text, i) ==
  IF i > Len(text) THEN <<>>
  ELSE LET ends == <<>> \o [j \in 1..(Len(text) - i + 1) |-> TightFootnoteEnd(text, i + j - 1)]
           k == FirstNonZero(ends)
       IN IF k = 0 THEN Slice(text, i, Len(text) + 1)
          ELSE Slice(text, i, i + k - 1) \o RemoveTightFootnotes(text, ends[k])

\* the stop patterns of _extract_name, in their order: \s, the first word,
\* then either \s+ and a second word, or a closing \s, or nothing
stop_patterns ==
  << [first |-> <<"r", "w", "t">>, second |-> <<"E", "n">>, closing |-> FALSE],
     [first |-> <<"r", "w", "Y">>, second |-> <<"E", "n">>, closing |-> FALSE],
     [first |-> <<"y", "r", "w", "Y">>, second |-> <<"E", "n">>, closing |-> FALSE],
     [first |-> <<"H", "d", "v">>, second |-> <<>>, closing |-> FALSE],
     [first |-> <<"q", "A", "l">>, second |-> <<>>, closing |-> FALSE],
     [first |-> <<"s", "m", "E", "t">>, second |-> <<>>, closing |-> FALSE],
     [first |-> <<"n", "A">>, second |-> <<>>, closing |-> TRUE],
     [first |-> <<"A", "s", "m", "h", "A">>, second |-> <<>>, closing |-> TRUE],
     [first |-> <<"A", "s", "m", "h">>, second |-> <<>>, closing |-> TRUE],
     [first |-> <<"m", "n">>, second |-> <<"A", "S", "H", "A", "b">>, closing |-> FALSE],
     [first |-> <<"l", "h">>, second |-> <<"S", "H", "b", "p">>, closing |-> FALSE],
     [first |-> <<"m", "d", "y", "n", "Y">>, second |-> <<>>, closing |-> FALSE],
     [first |-> <<"b", "k", "r", "y">>, second |-> <<>>, closing |-> FALSE],
     [first |-> <<"x", "z", "A", "E", "y", "p">>, second |-> <<>>, closing |-> FALSE],
     [first |-> <<"A", "n", "S", "A", "r", "y", "p">>, second |-> <<>>, closing |-> FALSE],
     [first |-> <<"A", "m", "r", ">", "p">>, second |-> <<>>, closing |-> FALSE] >>

\* stop pattern sp matches at index i
StopAt(sp, text, i) ==
  LET a == i + 1 + Len(sp.first)
  IN /\ i <= Len(text) /\ text[i] \in Whitespace
     /\ IsPrefixAt(sp.first, text, i + 1)
     /\ sp.second # <<>> =>
          RunEnd(Whitespace, text, a) > a
          /\ IsPrefixAt(sp.second, text, RunEnd(Whitespace, text, a))
     /\ sp.closing => a <= Len(text) /\ text[a] \in Whitespace

\* min_pos: the least index at which any stop pattern matches, 0 if none does
StopIndex(text) ==
  LET hits == {i \in 1..Len(text) :
                 \E k \in 1..Len(stop_patterns) : StopAt(stop_patterns[k], text, i)}
  IN IF hits = {} THEN 0 ELSE CHOOSE i \in hits : \A j \in hits : i <= j

FallbackWords ==
  5

MaxNameWords ==
  6

TrailingPunctuation ==
  {",", "ar,", ";", "ar;", ":", "."}

FirstN(ws, n) ==
  IF Len(ws) > n THEN SubSeq(ws, 1, n) ELSE ws

_extract_name(text) ==
  LET t1 == IF MarkerEnd(text, 1) # 0
            THEN Slice(text, MarkerEnd(text, 1), Len(text) + 1) ELSE text
      t3 == RemoveTightFootnotes(RemoveDotBrackets(t1, 1), 1)
      stop == StopIndex(t3)
      cut == IF stop # 0 THEN Strip(Slice(t3, 1, stop))
             ELSE JoinSpace(FirstN(Words(t3, 1), FallbackWords))
      name == RStrip(Strip(cut), TrailingPunctuation)
      words == Words(name, 1)
  IN IF Len(words) > MaxNameWords THEN JoinSpace(SubSeq(words, 1, MaxNameWords))
     ELSE name

\* list(dict.fromkeys(found)): first occurrences, order kept
RECURSIVE Dedupe(_)
Dedupe(s) ==
  IF s = <<>> THEN <<>>
  ELSE LET front == Dedupe(SubSeq(s, 1, Len(s) - 1))
       IN IF s[Len(s)] \in Range(front) THEN front ELSE Append(front, s[Len(s)])

_extract_keywords(text, keywords) ==
  LET Found(kw) == Contains(kw, text)
  IN Dedupe(SelectSeq(keywords, Found))

En ==
  <<"E", "n">>

Enh ==
  <<"E", "n", "h">>

smEt ==
  <<"s", "m", "E", "t">>

nA ==
  <<"n", "A">>

\* the relation patterns: <verb>\s+<particle><optional letter>?\s+(capture)
teacher_patterns ==
  << [verb |-> <<"r", "w", "Y">>, particle |-> En, optional |-> {}],
     [verb |-> <<"r", "w", "t">>, particle |-> En, optional |-> {}],
     [verb |-> smE, particle |-> mn, optional |-> {}],
     [verb |-> smEt, particle |-> mn, optional |-> {}] >>

student_patterns ==
  << [verb |-> <<"r", "w", "Y">>, particle |-> Enh, optional |-> {"A", "'"}],
     [verb |-> <<"r", "w", "t">>, particle |-> Enh, optional |-> {"A", "'"}],
     [verb |-> <<"H", "d", "v">>, particle |-> Enh, optional |-> {"A", "'"}] >>

\* what the capture [^،\.] excludes
ListStops ==
  {"ar,", "."}

\* the lookahead (?=[،\.\n]|<other>|سمعت|قال|نا\s|و) at index e, where other
\* is 'روى عنه' for teachers and 'روى عن' for students
ClauseBoundaryAt(other, text, e) ==
  /\ e <= Len(text)
  /\ \/ text[e] \in {"ar,", ".", "\n"}
     \/ IsPrefixAt(other, text, e)
     \/ IsPrefixAt(smEt, text, e)
     \/ IsPrefixAt(qAl, text, e)
     \/ IsPrefixAt(nA, text, e) /\ e + Len(nA) <= Len(text)
          /\ text[e + Len(nA)] \in Whitespace
     \/ text[e] = "w"

\* the lazy capture from s tried with its end at e, e+1, ...: the index after
\* the shortest capture the lookahead accepts, 0 if none
LazyCaptureEnd(other, text, e) ==
  IF e > Len(text) THEN 0
  ELSE LET ends == <<>> \o [j \in 1..(Len(text) - e + 1) |->
                             IF text[e + j - 2] \in ListStops THEN -1
                             ELSE IF ClauseBoundaryAt(other, text, e + j - 1)
                                  THEN e + j - 1
                                  ELSE 0]
           k == FirstNonZero(ends)
       IN IF k = 0 \/ ends[k] = -1 THEN 0 ELSE ends[k]

\* the \s+ before the capture gives whitespace back, from s down to lo; at
\* the end of the text the capture has nothing to take and \s+ gives back
RECURSIVE LazyCaptureFrom(_, _, _, _)
LazyCaptureFrom(other, text, lo, s) ==
  IF s < lo THEN NoMatch
  ELSE IF s > Len(text) THEN LazyCaptureFrom(other, text, lo, s - 1)
  ELSE LET e == LazyCaptureEnd(other, text, s + 1)
       IN IF e # 0 THEN [end |-> e, name_list |-> Slice(text, s, e)]
          ELSE LazyCaptureFrom(other, text, lo, s - 1)

\* one relation pattern at index i
NRelationAt(pat, other, text, i) ==
  LET v == i + Len(pat.verb)
      k == RunEnd(Whitespace, text, v)
      a0 == k + Len(pat.particle)
      a == IF a0 <= Len(text) /\ text[a0] \in pat.optional THEN a0 + 1 ELSE a0
      b == RunEnd(Whitespace, text, a)
  IN IF IsPrefixAt(pat.verb, text, i) /\ k > v /\ IsPrefixAt(pat.particle, text, k)
        /\ b > a
     THEN LazyCaptureFrom(other, text, a + 1, b)
     ELSE NoMatch

\* re.findall(pattern, text) from index i
RECURSIVE NRelationMatches(_, _, _, _)
NRelationMatches(pat, other, text, i) ==
  IF i > Len(text) THEN <<>>
  ELSE LET all == <<>> \o [j \in 1..(Len(text) - i + 1) |-> NRelationAt(pat, other, text, i + j - 1)]
           m == FirstMatch(all)
       IN IF m.end = 0 THEN <<>>
          ELSE <<m.name_list>> \o NRelationMatches(pat, other, text, m.end)

\* \s+و\s+ at index i: the index after the match, 0 if none
AndEnd(raw, i) ==
  LET w == RunEnd(Whitespace, raw, i)
      x == RunEnd(Whitespace, raw, w + 1)
  IN IF w > i /\ w <= Len(raw) /\ raw[w] = "w" /\ x > w + 1 THEN x ELSE 0

\* re.split(r'\s+و\s+', raw): the part from start, scanning at i
RECURSIVE SplitOnAnd(_, _, _)
SplitOnAnd(raw, start, i) ==
  IF i > Len(raw) THEN <<Slice(raw, start, Len(raw) + 1)>>
  ELSE LET ends == <<>> \o [j \in 1..(Len(raw) - i + 1) |-> AndEnd(raw, i + j - 1)]
           k == FirstNonZero(ends)
       IN IF k = 0 THEN <<Slice(raw, start, Len(raw) + 1)>>
          ELSE <<Slice(raw, start, i + k - 1)>> \o SplitOnAnd(raw, ends[k], ends[k])

MinNameLen ==
  2

byAD ==
  <<"b", "y", "A", "D">>

AHAdyv ==
  <<"A", "H", "A", "d", "y", "v">>

Hdyv ==
  <<"H", "d", "y", "v">>

\* the clean-up of one candidate, before the prefixes are removed
CleanCandidate(name) ==
  Strip(RemoveTightFootnotes(RemoveDotBrackets(Strip(name), 1), 1))

\* str.startswith(prefix) and the slice that drops it
DropPrefix(s, prefix) ==
  IF IsPrefixAt(prefix, s, 1) THEN Strip(Slice(s, Len(prefix) + 1, Len(s) + 1)) ELSE s

\* the filter before the append
Acceptable(name, sofar) ==
  /\ Len(name) > MinNameLen
  /\ ~Contains(byAD, name)
  /\ ~Contains(AHAdyv, name)
  /\ ~Contains(Hdyv, name)
  /\ name \notin Range(sofar)

\* the candidates of every match of every pattern, in the loops' order
RECURSIVE FlattenSplits(_)
FlattenSplits(ms) ==
  IF ms = <<>> THEN <<>> ELSE SplitOnAnd(Head(ms), 1, 1) \o FlattenSplits(Tail(ms))

RECURSIVE AllCandidates(_, _, _, _)
AllCandidates(pats, other, text, n) ==
  IF n > Len(pats) THEN <<>>
  ELSE FlattenSplits(NRelationMatches(pats[n], other, text, 1))
         \o AllCandidates(pats, other, text, n + 1)

RECURSIVE AcceptTeachers(_, _)
AcceptTeachers(cands, sofar) ==
  IF cands = <<>> THEN sofar
  ELSE LET teacher == DropPrefix(CleanCandidate(Head(cands)), <<"E", "n", " ">>)
       IN AcceptTeachers(Tail(cands),
            IF Acceptable(teacher, sofar) THEN Append(sofar, teacher) ELSE sofar)

RECURSIVE AcceptStudents(_, _)
AcceptStudents(cands, sofar) ==
  IF cands = <<>> THEN sofar
  ELSE LET student == DropPrefix(DropPrefix(CleanCandidate(Head(cands)),
                                            <<"E", "n", "h", " ">>),
                                 <<"E", "n", "h", "A", " ">>)
       IN AcceptStudents(Tail(cands),
            IF Acceptable(student, sofar) THEN Append(sofar, student) ELSE sofar)

_extract_teachers(text) ==
  AcceptTeachers(AllCandidates(teacher_patterns, rwY_Enh, text, 1), <<>>)

_extract_students(text) ==
  AcceptStudents(AllCandidates(student_patterns, rwY_En, text, 1), <<>>)

\* (\d+)\s*-\s*([^\n]+) at index i; the \s* after the hyphen gives whitespace
\* back until a character other than a newline follows
RECURSIVE RestOfLineStart(_, _, _)
RestOfLineStart(text, lo, p) ==
  IF p < lo THEN 0
  ELSE IF p <= Len(text) /\ text[p] # "\n" THEN p
  ELSE RestOfLineStart(text, lo, p - 1)

EntryMatchAt(text, i) ==
  LET d == RunEnd(DigitClass, text, i)
      w == RunEnd(Whitespace, text, d)
      b == RunEnd(Whitespace, text, w + 1)
      p == RestOfLineStart(text, w + 1, b)
  IN IF d > i /\ w <= Len(text) /\ text[w] = "-" /\ p # 0
     THEN [end |-> FindFirst({"\n"}, text, p), start |-> i, number |-> Slice(text, i, d)]
     ELSE NoMatch

\* list(re.finditer(pattern, text_converted)) from index i
RECURSIVE EntryMatches(_, _)
EntryMatches(text, i) ==
  IF i > Len(text) THEN <<>>
  ELSE LET all == <<>> \o [j \in 1..(Len(text) - i + 1) |-> EntryMatchAt(text, i + j - 1)]
           m == FirstMatch(all)
       IN IF m.end = 0 THEN <<>>
          ELSE <<m>> \o EntryMatches(text, m.end)

\* int(x) if x else 0
IntOrZero(x) ==
  IF x = <<>> \/ x = None THEN 0 ELSE IntOf(x)

\* `int(x) if x else 0` raises: x is truthy and not an integer literal
IntOrZeroRaises(x) ==
  x # <<>> /\ x # None /\ ~IsIntLiteral(x)

\* the body of the loop over the matches, for match k
NarratorData(text, converted, ms, k, volume, page) ==
  LET end_pos == IF k < Len(ms) THEN ms[k + 1].start ELSE Len(converted) + 1
      full_text == Slice(converted, ms[k].start, end_pos)
      full_text_original == Slice(text, ms[k].start, end_pos)
  IN [narrator_id |-> <<"N">> \o ZeroPad(ms[k].number, IdWidth),
      full_name |-> Strip(_extract_name(full_text)),
      taadil |-> _extract_keywords(full_text_original, taadil_keywords),
      jarh |-> _extract_keywords(full_text_original, jarh_keywords),
      teachers |-> _extract_teachers(full_text_original),
      students |-> _extract_students(full_text_original),
      source |-> [volume |-> IntOrZero(volume), page |-> IntOrZero(page)]]

_extract_narrator_entries(text, volume, page) ==
  LET converted == convert_arabic_numerals(text)
      ms == EntryMatches(converted, 1)
  IN IF ms = <<>> THEN <<>>
     ELSE IF IntOrZeroRaises(volume) \/ IntOrZeroRaises(page) THEN ValueError
     ELSE [k \in 1..Len(ms) |-> NarratorData(text, converted, ms, k, volume, page)]

(***************************************************************************)
(* JarhWaTadilExtractor: process_entry and the page driver                 *)
(***************************************************************************)

\* the default of extract_from_json's start_volume, and what main() passes
start_volume ==
  2

\* f"N{self.counter:05d}"
NarratorId(n) ==
  <<"N">> \o ZeroPad(DecimalDigits(n), IdWidth)

\* self.arabic_to_western(str(page.get("vol", "1"))): the default stands in
\* for a missing key only
VolumeText(page) ==
  arabic_to_western(str(IF "vol" \in DOMAIN page THEN page.vol ELSE <<"1">>))

\* int(self.arabic_to_western(str(page.get("vol", "1"))))
PageVolume(page) ==
  IntOf(VolumeText(page))

\* a filter that also drops the first volume it should keep
BelowStartInclusive(v) ==
  v <= start_volume

\* vol < start_volume
BelowStart(v) ==
  v < start_volume

\* `if not name` of process_entry
NameMissing(entry) ==
  LET name == extract_name(entry)
  IN name = None \/ name = <<>>

\* the record process_entry builds for a named entry; teachers and students
\* are the lists list() made of the two sets
process_entry(entry, page, v, n, teachers, students) ==
  LET judgements == extract_judgements(entry)
  IN [narrator_id |-> NarratorId(n),
      full_name |-> extract_name(entry),
      taadil |-> judgements.taadil,
      jarh |-> judgements.jarh,
      unclassified |-> judgements.unclassified,
      teachers |-> teachers,
      students |-> students,
      source |-> [volume |-> v, page |-> page]]

\* three entries, the second without a name, the first with an attributed judgement:
\*   1 - zyd bn Emr qAl AHmd: wsT.
\*   2 - qAl
\*   3 - Ely bn zyd
TextThree ==
  <<"1", " ", "-", " ", "z", "y", "d", " ", "b", "n", " ", "E", "m", "r",
    " ", "q", "A", "l", " ", "A", "H", "m", "d", ":", " ", "w", "s", "T",
    ".", "\n", "2", " ", "-", " ", "q", "A", "l", "\n", "3", " ", "-", " ",
    "E", "l", "y", " ", "b", "n", " ", "z", "y", "d">>

\* one entry with two teachers and one student:
\*   4 - bkr bn sEd rwY En zyd bn Ely w Emr bn zyd. rwY Enh sEd bn bkr
TextTeachers ==
  <<"4", " ", "-", " ", "b", "k", "r", " ", "b", "n", " ", "s", "E", "d",
    " ", "r", "w", "Y", " ", "E", "n", " ", "z", "y", "d", " ", "b", "n",
    " ", "E", "l", "y", " ", "w", " ", "E", "m", "r", " ", "b", "n", " ",
    "z", "y", "d", ".", " ", "r", "w", "Y", " ", "E", "n", "h", " ", "s",
    "E", "d", " ", "b", "n", " ", "b", "k", "r">>

\* a page with no entry marker:
\*   bAb AlzAy
TextPreface ==
  <<"b", "A", "b", " ", "A", "l", "z", "A", "y">>

PageTexts ==
  {TextThree, TextTeachers, TextPreface}

\* volumes as the input writes them: Arabic-Indic 1, Arabic-Indic 2, 10
PageVols ==
  {<<"ar1">>, <<"ar2">>, <<"1", "0">>}

\* a page object without the "vol" key
PageNoVol ==
  [page |-> 10, text |-> TextThree]

\* volumes int() rejects: JSON null and the empty string
BadVols ==
  {None, <<>>}

Pages ==
  {[vol |-> v, page |-> 10, text |-> t] : v \in PageVols, t \in PageTexts}
    \cup {PageNoVol}
    \cup {[vol |-> v, page |-> 10, text |-> TextPreface] : v \in BadVols}

MaxPages ==
  2

\* every list of at most n pages
RECURSIVE PageLists(_)
PageLists(n) ==
  IF n = 0 THEN {<<>>}
  ELSE PageLists(n - 1)
         \cup {Append(l, p) : l \in {x \in PageLists(n - 1) : Len(x) = n - 1}, p \in Pages}

\* the variables of the other extractor and of the function calls, at rest
IdleN ==
  data = <<>> /\ didx = 0 /\ narrators = <<>>

IdleF ==
  input = <<>> /\ result = <<>>

IdleJ ==
  /\ pages = <<>> /\ pidx = 0 /\ entries = <<>> /\ vol = 0 /\ records = <<>>
  /\ counter = 1 /\ run = 0 /\ output1 = <<>>

varsJ ==
  <<pages, pidx, entries, vol, records, counter, run, output1>>

varsN ==
  <<data, didx, narrators>>

varsF ==
  <<input, result>>

\* main(): a fresh extractor (records empty, counter 1) and the loaded pages
Init ==
  /\ pages \in PageLists(MaxPages)
  /\ pc = "pages" /\ pidx = 1 /\ entries = <<>> /\ vol = 0
  /\ records = <<>> /\ counter = 1 /\ run = 1 /\ output1 = <<>>
  /\ IdleN /\ IdleF

\* the outer loop meets a page below start_volume: continue
SkipPage ==
  /\ pc = "pages" /\ pidx <= Len(pages)
  /\ IsIntLiteral(VolumeText(pages[pidx]))
  /\ BelowStart(PageVolume(pages[pidx]))
  /\ vol' = PageVolume(pages[pidx])
  /\ pidx' = pidx + 1
  /\ UNCHANGED <<pc, pages, entries, records, counter, run, output1>>
  /\ UNCHANGED <<varsN, varsF>>

\* the outer loop meets a page it keeps: segment it
SegmentPage ==
  /\ pc = "pages" /\ pidx <= Len(pages)
  /\ IsIntLiteral(VolumeText(pages[pidx]))
  /\ ~BelowStart(PageVolume(pages[pidx]))
  /\ vol' = PageVolume(pages[pidx])
  /\ entries' = segment_entries(pages[pidx].text)
  /\ pc' = "entries"
  /\ UNCHANGED <<pages, pidx, records, counter, run, output1>>
  /\ UNCHANGED <<varsN, varsF>>

\* int() raises on the page's volume: extract_from_json ends with the
\* exception, main() saves nothing
RaiseValueError ==
  /\ pc = "pages" /\ pidx <= Len(pages)
  /\ ~IsIntLiteral(VolumeText(pages[pidx]))
  /\ pc' = "raised"
  /\ UNCHANGED <<pages, pidx, entries, vol, records, counter, run, output1>>
  /\ UNCHANGED <<varsN, varsF>>

\* the inner loop: process_entry returns a record, which is appended
EmitRecord ==
  /\ pc = "entries" /\ entries # <<>>
  /\ ~NameMissing(Head(entries))
  /\ \E t \in ListOfSet(TeacherSet(Head(entries))),
        s \in ListOfSet(StudentSet(Head(entries))) :
       records' = Append(records,
                    process_entry(Head(entries), pages[pidx].page, vol, counter, t, s))
  /\ counter' = counter + 1
  /\ entries' = Tail(entries)
  /\ UNCHANGED <<pc, pages, pidx, vol, run, output1>>
  /\ UNCHANGED <<varsN, varsF>>

\* a process_entry that takes a number before it looks for the name
DropEntryAdvancing ==
  /\ pc = "entries" /\ entries # <<>>
  /\ NameMissing(Head(entries))
  /\ entries' = Tail(entries)
  /\ counter' = counter + 1
  /\ UNCHANGED <<pc, pages, pidx, vol, records, run, output1>>
  /\ UNCHANGED <<varsN, varsF>>

\* the inner loop: process_entry returns None
DropEntry ==
  /\ pc = "entries" /\ entries # <<>>
  /\ NameMissing(Head(entries))
  /\ entries' = Tail(entries)
  /\ UNCHANGED <<pc, pages, pidx, vol, records, counter, run, output1>>
  /\ UNCHANGED <<varsN, varsF>>

\* the inner loop ends: on to the next page
NextPage ==
  /\ pc = "entries" /\ entries = <<>>
  /\ pidx' = pidx + 1
  /\ pc' = "pages"
  /\ UNCHANGED <<pages, entries, vol, records, counter, run, output1>>
  /\ UNCHANGED <<varsN, varsF>>

\* the outer loop ends: extract_from_json returns and main() saves the records
Save ==
  /\ pc = "pages" /\ pidx > Len(pages)
  /\ pc' = "done"
  /\ output1' = IF run = 1 THEN records ELSE output1
  /\ UNCHANGED <<pages, pidx, entries, vol, records, counter, run>>
  /\ UNCHANGED <<varsN, varsF>>

\* main() is run a second time on the same input: a new process, a new extractor
Rerun ==
  /\ pc = "done" /\ run = 1
  /\ run' = 2
  /\ records' = <<>> /\ counter' = 1
  /\ pidx' = 1 /\ entries' = <<>> /\ vol' = 0
  /\ pc' = "pages"
  /\ UNCHANGED <<pages, output1>>
  /\ UNCHANGED <<varsN, varsF>>

Next ==
  \/ SkipPage
  \/ SegmentPage
  \/ RaiseValueError
  \/ EmitRecord
  \/ DropEntry
  \/ NextPage
  \/ Save
  \/ Rerun

Spec ==
  Init /\ [][Next]_vars

(***************************************************************************)
(* Properties of the JarhWaTadilExtractor driver                           *)
(***************************************************************************)

\* C1: in a run of extract_from_json on a fresh extractor the k-th emitted
\* record has narrator_id 'N' followed by k zero-padded to five digits, and
\* at every point counter = 1 + the number of records emitted: a dropped
\* entry and a skipped page take no number.
SequentialIds ==
  /\ counter = Len(records) + 1
  /\ \A k \in 1..Len(records) :
       LET id == records[k].narrator_id
       IN /\ Len(id) = 6
          /\ id[1] = "N"
          /\ \A i \in 2..6 : id[i] \in Range(WesternDigits)
          /\ IntOf(Tail(id)) = k

\* a skipped first page, then a page whose second entry was dropped between
\* two emitted records
SequentialIdsWitness ==
  /\ pc = "entries" /\ entries = <<>> /\ pidx = 2 /\ Len(records) = 2
  /\ PageVolume(pages[1]) < 2
  /\ segment_entries(pages[1].text) # <<>>
  /\ Len(segment_entries(pages[2].text)) = 3

\* C4: a page whose normalized volume is below start_volume is skipped
\* entirely, leaving the record list and the counter as they are whatever its
\* text; a page with a normalized volume of start_volume or more is always
\* segmented and processed.
VolumeFilter ==
  [][(pc = "pages" /\ pidx <= Len(pages) /\ IsIntLiteral(VolumeText(pages[pidx]))) =>
       IF PageVolume(pages[pidx]) < 2
       THEN /\ records' = records /\ counter' = counter /\ entries' = entries
            /\ pc' = "pages" /\ pidx' = pidx + 1
       ELSE /\ records' = records /\ counter' = counter
            /\ entries' = segment_entries(pages[pidx].text)
            /\ pc' = "entries" /\ pidx' = pidx]_vars

\* a run that skipped a first page holding three entries and kept a second
\* page with the same text, from which it emitted records
VolumeFilterWitness ==
  /\ pc = "done" /\ run = 1 /\ Len(pages) = 2
  /\ PageVolume(pages[1]) < 2 /\ PageVolume(pages[2]) >= 2
  /\ pages[1].text = pages[2].text
  /\ Len(records) = 2
  /\ \A k \in 1..Len(records) : records[k].source.volume = PageVolume(pages[2])

\* C7: two runs, each on a fresh extractor and on the same pages, produce the
\* same record sequence, the order of each record's teachers and students
\* included.
Deterministic ==
  (pc = "done" /\ run = 2) => records = output1

(***************************************************************************)
(* NarratorExtractor.extract_narrators                                     *)
(***************************************************************************)

\* an entry with a name, a teacher and a keyword:
\*   1 - zyd bn Ely rwY En xAld. vqp
NTextNamed ==
  <<"1", " ", "-", " ", "z", "y", "d", " ", "b", "n", " ", "E", "l", "y",
    " ", "r", "w", "Y", " ", "E", "n", " ", "x", "A", "l", "d", ".", " ",
    "v", "q", "p">>

\* an entry whose line holds only an editorial insertion:
\*   1 - [byAD]
NTextBracket ==
  <<"1", " ", "-", " ", "[", "b", "y", "A", "D", "]">>

\* two entries:
\*   1 - Emr
\*   2 - sEd qAl AHmd: DEyf
NTextTwo ==
  <<"1", " ", "-", " ", "E", "m", "r", "\n", "2", " ", "-", " ", "s", "E",
    "d", " ", "q", "A", "l", " ", "A", "H", "m", "d", ":", " ", "D", "E",
    "y", "f">>

NTexts ==
  {NTextNamed, NTextBracket, NTextTwo}

\* a page object of the JSON array
DictItems ==
  {[kind |-> "dict", text |-> t, vol |-> v, page |-> <<"7">>] :
     t \in NTexts, v \in {<<"ar2">>, <<>>}}

\* a page object whose volume int() rejects
BadVolItem ==
  [kind |-> "dict", text |-> NTextNamed, vol |-> <<"v", "2">>, page |-> <<"7">>]

\* what is neither a list nor a dict
OtherItem ==
  [kind |-> "other"]

\* a per-volume list of page objects
ListItems ==
  {[kind |-> "list", items |-> <<a, b>>] :
     a \in {d \in DictItems : d.vol # <<>>} \cup {OtherItem},
     b \in {d \in DictItems : d.vol # <<>>}}
    \cup {[kind |-> "list",
           items |-> <<[kind |-> "dict", text |-> NTextTwo, vol |-> <<"ar2">>,
                        page |-> <<"7">>], BadVolItem>>]}

DataItems ==
  DictItems \cup ListItems \cup {OtherItem, BadVolItem}

MaxItems ==
  2

\* every array of at most n items
RECURSIVE DataLists(_)
DataLists(n) ==
  IF n = 0 THEN {<<>>}
  ELSE DataLists(n - 1)
         \cup {Append(l, x) : l \in {y \in DataLists(n - 1) : Len(y) = n - 1},
                              x \in DataItems}

\* what one entry of a list, or one top-level item, adds: a dict is
\* segmented, anything else is passed over
EntriesOfItem(item) ==
  IF item.kind = "dict"
  THEN _extract_narrator_entries(item.text, item.vol, item.page)
  ELSE <<>>

\* _extract_narrator_entries raises on the item: its text has an entry and
\* int() rejects its volume or its page
ItemRaises(item) ==
  /\ item.kind = "dict"
  /\ EntryMatches(convert_arabic_numerals(item.text), 1) # <<>>
  /\ IntOrZeroRaises(item.vol) \/ IntOrZeroRaises(item.page)

\* the inner loop raises on some entry of the list
ListRaises(items) ==
  \E i \in 1..Len(items) : ItemRaises(items[i])

\* the inner loop over a per-volume list, as far as it gets
RECURSIVE EntriesOfList(_)
EntriesOfList(items) ==
  IF items = <<>> \/ ItemRaises(Head(items)) THEN <<>>
  ELSE EntriesOfItem(Head(items)) \o EntriesOfList(Tail(items))

InitN ==
  /\ data \in DataLists(MaxItems)
  /\ pc = "items" /\ didx = 1 /\ narrators = <<>>
  /\ IdleJ /\ IdleF

\* isinstance(volume_pages, list)
HandleList ==
  /\ pc = "items" /\ didx <= Len(data) /\ data[didx].kind = "list"
  /\ ~ListRaises(data[didx].items)
  /\ narrators' = narrators \o EntriesOfList(data[didx].items)
  /\ didx' = didx + 1
  /\ UNCHANGED <<pc, data>>
  /\ UNCHANGED <<varsJ, varsF>>

\* isinstance(volume_pages, dict)
HandleDict ==
  /\ pc = "items" /\ didx <= Len(data) /\ data[didx].kind = "dict"
  /\ ~ItemRaises(data[didx])
  /\ narrators' = narrators \o EntriesOfItem(data[didx])
  /\ didx' = didx + 1
  /\ UNCHANGED <<pc, data>>
  /\ UNCHANGED <<varsJ, varsF>>

\* int() raises inside _extract_narrator_entries: extract_narrators ends with
\* the exception and returns nothing; narrators holds what the loops had
\* gathered
RaiseInItem ==
  /\ pc = "items" /\ didx <= Len(data)
  /\ \/ /\ data[didx].kind = "list" /\ ListRaises(data[didx].items)
        /\ narrators' = narrators \o EntriesOfList(data[didx].items)
     \/ /\ data[didx].kind = "dict" /\ ItemRaises(data[didx])
        /\ narrators' = narrators
  /\ pc' = "raised"
  /\ UNCHANGED <<data, didx>>
  /\ UNCHANGED <<varsJ, varsF>>

\* neither branch applies
PassItem ==
  /\ pc = "items" /\ didx <= Len(data) /\ data[didx].kind = "other"
  /\ didx' = didx + 1
  /\ UNCHANGED <<pc, data, narrators>>
  /\ UNCHANGED <<varsJ, varsF>>

\* return narrators
ReturnNarrators ==
  /\ pc = "items" /\ didx > Len(data)
  /\ pc' = "done"
  /\ UNCHANGED <<data, didx, narrators>>
  /\ UNCHANGED <<varsJ, varsF>>

NextN ==
  \/ HandleList
  \/ HandleDict
  \/ RaiseInItem
  \/ PassItem
  \/ ReturnNarrators

SpecN ==
  InitN /\ [][NextN]_vars

\* C2: in a run of extract_narrators narrator_id is sequentially assigned and
\* never reused: no two emitted records carry the same narrator_id, and the
\* ids increase in emission order.
IdsNeverReused ==
  \A i \in 1..Len(narrators) : \A j \in 1..Len(narrators) :
    i < j =>
      /\ narrators[i].narrator_id # narrators[j].narrator_id
      /\ IntOf(Tail(narrators[i].narrator_id)) < IntOf(Tail(narrators[j].narrator_id))

\* C3: every record either page driver emits has a non-empty full_name: an
\* entry whose name extraction yields an empty or absent name produces no
\* record.
EveryRecordNamed ==
  /\ \A k \in 1..Len(records) :
       records[k].full_name # <<>> /\ records[k].full_name # None
  /\ \A k \in 1..Len(narrators) :
       narrators[k].full_name # <<>> /\ narrators[k].full_name # None

(***************************************************************************)
(* extract_judgements applied to an entry                                  *)
(***************************************************************************)

\* an approval phrase holding a compound term and its two parts:
\*   qAl AHmd: vqp vbt. 
ClauseTwoTerms ==
  <<"q", "A", "l", " ", "A", "H", "m", "d", ":", " ", "v", "q", "p", " ",
    "v", "b", "t", ".", " ">>

\* a criticism introduced by "and said":
\*   wqAl yHyY: DEyf. 
ClauseCriticism ==
  <<"w", "q", "A", "l", " ", "y", "H", "y", "Y", ":", " ", "D", "E", "y",
    "f", ".", " ">>

\* an attributed phrase with no term of either lexicon:
\*   qAl AHmd: rjl. 
ClauseUnknown ==
  <<"q", "A", "l", " ", "A", "H", "m", "d", ":", " ", "r", "j", "l", ".",
    " ">>

\* an attributed phrase that is the term both lexicons hold:
\*   qAl AHmd: wsT. 
ClauseAverage ==
  <<"q", "A", "l", " ", "A", "H", "m", "d", ":", " ", "w", "s", "T", ".",
    " ">>

\* terms with no attribution:
\*   Sdwq yhm. 
ClauseBare ==
  <<"S", "d", "w", "q", " ", "y", "h", "m", ".", " ">>

Clauses ==
  {ClauseTwoTerms, ClauseCriticism, ClauseUnknown, ClauseAverage, ClauseBare}

MaxClauses ==
  3

\* every text of at most n clauses
RECURSIVE ClauseTexts(_)
ClauseTexts(n) ==
  IF n = 0 THEN {<<>>}
  ELSE ClauseTexts(n - 1) \cup {t \o c : t \in ClauseTexts(n - 1), c \in Clauses}

InitJ ==
  /\ input \in ClauseTexts(MaxClauses)
  /\ pc = "call" /\ result = <<>>
  /\ IdleJ /\ IdleN

CallExtractJudgements ==
  /\ pc = "call"
  /\ result' = extract_judgements(input)
  /\ pc' = "done"
  /\ UNCHANGED <<input, varsJ, varsN>>

NextJ ==
  CallExtractJudgements

SpecJ ==
  InitJ /\ [][NextJ]_vars

\* how many indices of s satisfy P
CountOf(s, P(_)) ==
  Cardinality({k \in 1..Len(s) : P(s[k])})

\* C5: a judgement is classified as approval or as criticism, never both: no
\* matched source phrase or lexicon term adds entries to the taadil list and
\* to the jarh list.
ExclusiveClassification ==
  pc = "done" =>
    \A i \in 1..Len(result.taadil) : \A j \in 1..Len(result.jarh) :
      ~(/\ result.taadil[i].exact_text = result.jarh[j].exact_text
        /\ result.taadil[i].evaluated_by = result.jarh[j].evaluated_by)

\* C6: every attributed match is accounted for: a phrase with no term of
\* either lexicon yields exactly one unclassified entry carrying the phrase and
\* its evaluator; a phrase with at least one term yields no unclassified entry
\* and, in each list, one attributed judgement per term of that list's lexicon
\* it contains.
AttributedAccounted ==
  pc = "done" =>
    LET ms == EvaluatorMatches(input, 1)
        NoTerm(m) ==
          /\ \A k \in 1..Len(taadil_terms) : ~Contains(taadil_terms[k].ar, m.phrase)
          /\ \A k \in 1..Len(jarh_terms) : ~Contains(jarh_terms[k].ar, m.phrase)
        TermCount(terms, m) ==
          Cardinality({k \in 1..Len(terms) : Contains(terms[k].ar, m.phrase)})
    IN /\ \A n \in 1..Len(ms) :
            LET m == ms[n]
                Same(x) == x.phrase = m.phrase /\ x.evaluator = m.evaluator
                Mine(e) == e.exact_text = m.phrase /\ e.evaluated_by = m.evaluator
            IN /\ CountOf(result.unclassified, Mine)
                    = IF NoTerm(m) THEN CountOf(ms, Same) ELSE 0
               /\ CountOf(result.taadil, Mine)
                    = CountOf(ms, Same) * TermCount(taadil_terms, m)
               /\ CountOf(result.jarh, Mine)
                    = CountOf(ms, Same) * TermCount(jarh_terms, m)
       /\ Len(result.unclassified) = CountOf(ms, NoTerm)

\* a text with one phrase that went to unclassified and one that was
\* classified under its evaluator
AttributedAccountedWitness ==
  /\ pc = "done"
  /\ Len(result.unclassified) = 1
  /\ \E i \in 1..Len(result.taadil) : result.taadil[i].evaluated_by # None
  /\ \E j \in 1..Len(result.jarh) : result.jarh[j].evaluated_by # None

(***************************************************************************)
(* The two name extractors applied to an entry                             *)
(***************************************************************************)

zyd ==
  <<"z", "y", "d">>

Ely ==
  <<"E", "l", "y">>

\* a name of k+1 words joined by the connective conn
RECURSIVE NameChain(_, _)
NameChain(k, conn) ==
  IF k = 0 THEN zyd
  ELSE NameChain(k - 1, conn) \o <<" ">> \o conn \o <<" ">>
         \o (IF k % 2 = 1 THEN Ely ELSE zyd)

\* what follows the name: " rwY En xAld"
TailNarrated ==
  <<" ", "r", "w", "Y", " ", "E", "n", " ", "x", "A", "l", "d">>

\* what follows the name: " qAl AHmd: vqp"
TailSaid ==
  <<" ", "q", "A", "l", " ", "A", "H", "m", "d", ":", " ", "v", "q", "p">>

\* what follows the name: " AlbSry Alkwfy"
TailWords ==
  <<" ", "A", "l", "b", "S", "r", "y", " ", "A", "l", "k", "w", "f", "y">>

NameTails ==
  {<<>>, <<".">>, TailNarrated, TailSaid, TailWords}

MaxChain ==
  7

NameEntries ==
  {<<"1", " ", "-", " ">> \o NameChain(k, conn) \o tail :
     k \in 0..MaxChain, conn \in {bn, Abn}, tail \in NameTails}

InitName ==
  /\ input \in NameEntries
  /\ pc = "call" /\ result = <<>>
  /\ IdleJ /\ IdleN

\* JarhWaTadilExtractor.extract_name(entry)
CallExtractName ==
  /\ pc = "call"
  /\ result' = extract_name(input)
  /\ pc' = "done"
  /\ UNCHANGED <<input, varsJ, varsN>>

\* NarratorExtractor._extract_name(full_text)
CallNExtractName ==
  /\ pc = "call"
  /\ result' = _extract_name(input)
  /\ pc' = "done"
  /\ UNCHANGED <<input, varsJ, varsN>>

NextName ==
  \/ CallExtractName
  \/ CallNExtractName

SpecName ==
  InitName /\ [][NextName]_vars

\* C8: the name a name extractor returns has at most six whitespace-delimited
\* words, whether cut at a stop phrase, taken from the fallback or matched
\* from the entry header.
NameAtMostSixWords ==
  pc = "done" => result = None \/ Len(Words(result, 1)) <= 6

(***************************************************************************)
(* NarratorExtractor's relation extractors applied to an entry             *)
(***************************************************************************)

xAld ==
  <<"x", "A", "l", "d">>

sEd ==
  <<"s", "E", "d">>

bkr ==
  <<"b", "k", "r">>

TeacherNames ==
  {zyd, xAld, sEd}

StudentNames ==
  {bkr, Ely}

MaxTeachers ==
  3

\* the lists of one to n different teacher names
TeacherLists(n) ==
  UNION {{l \in [1..k -> TeacherNames] : \A i, j \in 1..k : i # j => l[i] # l[j]} :
           k \in 1..n}

\* the clause boundaries that can end the list
ListBoundaries ==
  {<<"ar,">>, <<".">>, <<"\n">>}

RelationInputs ==
  {[teachers |-> l, boundary |-> b, student |-> st] :
     l \in TeacherLists(MaxTeachers), b \in ListBoundaries, st \in StudentNames}

\* the names joined by the conjunction: A w B w C
RECURSIVE JoinAnd(_)
JoinAnd(names) ==
  IF Len(names) = 1 THEN names[1]
  ELSE names[1] \o <<" ", "w", " ">> \o JoinAnd(Tail(names))

\* rwY En <teachers><boundary> rwY Enh <student>.
RelationText(in) ==
  rwY_En \o <<" ">> \o JoinAnd(in.teachers) \o in.boundary \o <<" ">>
    \o rwY_Enh \o <<" ">> \o in.student \o <<".">>

InitRel ==
  /\ input \in RelationInputs
  /\ pc = "call" /\ result = <<>>
  /\ IdleJ /\ IdleN

\* the two calls _extract_narrator_entries makes on an entry's text
CallExtractRelations ==
  /\ pc = "call"
  /\ result' = [teachers |-> _extract_teachers(RelationText(input)),
                students |-> _extract_students(RelationText(input))]
  /\ pc' = "done"
  /\ UNCHANGED <<input, varsJ, varsN>>

NextRel ==
  CallExtractRelations

SpecRel ==
  InitRel /\ [][NextRel]_vars

\* C9: for a teacher phrase followed by names joined by 'and' and ended by a
\* clause boundary, then a student phrase followed by a name, _extract_teachers
\* returns every name of the teacher list in source order and no student, and
\* _extract_students returns the student name and no teacher.
RelationsOfList ==
  pc = "done" =>
    /\ result.teachers = input.teachers
    /\ result.students = <<input.student>>

(***************************************************************************)
(* segment_entries applied to a page text                                  *)
(***************************************************************************)

\* an entry body: zyd bn Ely qAl AHmd: vqp.
BodyNamed ==
  <<"z", "y", "d", " ", "b", "n", " ", "E", "l", "y", " ", "q", "A", "l",
    " ", "A", "H", "m", "d", ":", " ", "v", "q", "p", ".">>

\* text before the first marker: bAb AlzAy, then a newline
PrefaceText ==
  <<"b", "A", "b", " ", "A", "l", "z", "A", "y", "\n">>

EntryNumbers ==
  {<<"1">>, <<"1", "2">>, <<"ar3">>}

EntryBodies ==
  {BodyNamed, qAl}

MarkedEntries ==
  {[number |-> n, body |-> b] : n \in EntryNumbers, b \in EntryBodies}

MaxEntries ==
  2

\* every list of one to n marked entries
RECURSIVE EntryLists(_)
EntryLists(n) ==
  IF n = 0 THEN {<<>>}
  ELSE EntryLists(n - 1)
         \cup {Append(l, e) : l \in {x \in EntryLists(n - 1) : Len(x) = n - 1},
                              e \in MarkedEntries}

SegmentInputs ==
  {[preface |-> p, separator |-> sp, items |-> l] :
     p \in {<<>>, PrefaceText}, sp \in {<<"\n">>, <<" ">>},
     l \in EntryLists(MaxEntries) \ {<<>>}}

\* <number> - <body>
MarkedText(e) ==
  e.number \o <<" ", "-", " ">> \o e.body

RECURSIVE JoinEntries(_, _)
JoinEntries(items, sp) ==
  IF Len(items) = 1 THEN MarkedText(items[1])
  ELSE MarkedText(items[1]) \o sp \o JoinEntries(Tail(items), sp)

PageText(in) ==
  in.preface \o JoinEntries(in.items, in.separator)

InitSeg ==
  /\ input \in SegmentInputs
  /\ pc = "call" /\ result = <<>>
  /\ IdleJ /\ IdleN

CallSegmentEntries ==
  /\ pc = "call"
  /\ result' = segment_entries(PageText(input))
  /\ pc' = "done"
  /\ UNCHANGED <<input, varsJ, varsN>>

NextSeg ==
  CallSegmentEntries

SpecSeg ==
  InitSeg /\ [][NextSeg]_vars

\* C10: segment_entries returns exactly one entry per 'number - ' marker, in
\* source order, each beginning with its own complete ordinal marker (all the
\* digits of the number); the text before the first marker is discarded and
\* no returned entry is empty.
OneEntryPerMarker ==
  pc = "done" =>
    /\ Len(result) = Len(input.items)
    /\ \A k \in 1..Len(result) :
         /\ result[k] # <<>>
         /\ IsPrefixAt(arabic_to_western(input.items[k].number) \o <<" ", "-", " ">>
                         \o input.items[k].body,
                       result[k], 1)

(***************************************************************************)
(* Standalone judgements                                                   *)
(***************************************************************************)

\* the number of (match, term) pairs in which the match's phrase holds the
\* term of the lexicon
RECURSIVE AttributedTermMatches(_, _)
AttributedTermMatches(terms, ms) ==
  IF ms = <<>> THEN 0
  ELSE Cardinality({k \in 1..Len(terms) : Contains(terms[k].ar, Head(ms).phrase)})
         + AttributedTermMatches(terms, Tail(ms))

\* C11: standalone mode runs independently of attributed mode: for every
\* lexicon term contained anywhere in the entry text the lexicon's list holds
\* exactly one judgement with evaluated_by absent and exact_text equal to the
\* term (and none for a term the text does not contain); every attributed
\* judgement has, in the same list, a standalone judgement with the same
\* statement label; and the length of each list is the number of attributed
\* term matches plus the number of that lexicon's terms contained in the text.
StandaloneIndependent ==
  pc = "done" =>
    LET ms == EvaluatorMatches(input, 1)
        Holds(list, terms) ==
          /\ \A k \in 1..Len(terms) :
               LET Mine(e) == /\ e.evaluated_by = None
                              /\ e.exact_text = terms[k].ar
                   n == CountOf(list, Mine)
               IN /\ n = IF Contains(terms[k].ar, input) THEN 1 ELSE 0
                  /\ \A i \in 1..Len(list) :
                       Mine(list[i]) => list[i].statement = terms[k].en
          /\ \A i \in 1..Len(list) :
               list[i].evaluated_by # None =>
                 \E j \in 1..Len(list) :
                   /\ list[j].evaluated_by = None
                   /\ list[j].statement = list[i].statement
          /\ Len(list) = AttributedTermMatches(terms, ms)
                           + Cardinality({k \in 1..Len(terms) :
                                            Contains(terms[k].ar, input)})
    IN /\ Holds(result.taadil, taadil_terms)
       /\ Holds(result.jarh, jarh_terms)

\* a text in which one term was captured under an evaluator and again
\* standalone, and another term stands with no attribution at all
StandaloneIndependentWitness ==
  /\ pc = "done"
  /\ \E i, j \in 1..Len(result.taadil) :
       /\ result.taadil[i].evaluated_by # None
       /\ result.taadil[j].evaluated_by = None
       /\ Contains(result.taadil[j].exact_text, result.taadil[i].exact_text)
  /\ \E j \in 1..Len(result.jarh) :
       /\ result.jarh[j].evaluated_by = None
       /\ \A i \in 1..Len(result.jarh) :
            result.jarh[i].evaluated_by # None =>
              ~Contains(result.jarh[j].exact_text, result.jarh[i].exact_text)

====
